---- MODULE Spec2Model ----
(***************************************************************************)
(* A model of streamlit_app.py: the LLM response extraction and schema     *)
(* validation, the session cache of llm_english_analyze_with_time, and the *)
(* HTML the button handler builds from a validated analysis.               *)
(***************************************************************************)
EXTENDS Integers, Sequences, FiniteSets, TLC

(***************************************************************************)
(* Python values as json.loads produces them.  Every value is a record of  *)
(* the same shape, so that any two values can be compared:                 *)
(*   ty  "none" | "bool" | "num" | "str" | "list" | "dict"                 *)
(*   n   the number (bool: 0 or 1)                                         *)
(*   s   the string, a sequence of one-character strings                   *)
(*   l   the list, a sequence of values                                    *)
(*   d   the dict, a function from its keys to values                      *)
(***************************************************************************)
PyVal(ty, n, s, l, d) == [ty |-> ty, n |-> n, s |-> s, l |-> l, d |-> d]

PyNone == PyVal("none", 0, <<>>, <<>>, <<>>)

PyBool(b) == PyVal("bool", IF b THEN 1 ELSE 0, <<>>, <<>>, <<>>)

PyNum(n) == PyVal("num", n, <<>>, <<>>, <<>>)

PyStr(s) == PyVal("str", 0, s, <<>>, <<>>)

PyList(l) == PyVal("list", 0, <<>>, l, <<>>)

PyDict(d) == PyVal("dict", 0, <<>>, <<>>, d)

\* Python truth value of v, as `if v`, `not v` and `a and b` test it.
Truthy(v) ==
    CASE v.ty = "none" -> FALSE
      [] v.ty = "bool" -> v.n = 1
      [] v.ty = "num"  -> v.n # 0
      [] v.ty = "str"  -> v.s # <<>>
      [] v.ty = "list" -> v.l # <<>>
      [] v.ty = "dict" -> DOMAIN v.d # {}

\* dict.get(key, default)
Get(v, key, default) == IF key \in DOMAIN v.d THEN v.d[key] ELSE default

(***************************************************************************)
(* extract_json_from_llm_response.  The raw text is a sequence of chunks:  *)
(* "ws" (a run of whitespace), "fence" (```), "tag" (the word json in any  *)
(* case), "prose" (any other text that is no JSON document) and "json"     *)
(* (the serialisation of the value v).                                     *)
(***************************************************************************)
Chunk(k, v) == [k |-> k, v |-> v]

WS == Chunk("ws", PyNone)

FENCE == Chunk("fence", PyNone)

TAG == Chunk("tag", PyNone)

PROSE == Chunk("prose", PyNone)

JSON(v) == Chunk("json", v)

RECURSIVE DropLeadingWs(_)
DropLeadingWs(t) ==
    IF t # <<>> /\ Head(t).k = "ws" THEN DropLeadingWs(Tail(t)) ELSE t

RECURSIVE DropTrailingWs(_)
DropTrailingWs(t) ==
    IF t # <<>> /\ t[Len(t)].k = "ws"
    THEN DropTrailingWs(SubSeq(t, 1, Len(t) - 1))
    ELSE t

\* re.sub(r'^\s*```(?:json)?\s*\n*', '', raw_text, flags=IGNORECASE | DOTALL)
StripLeadingFence(raw_text) ==
    LET t == DropLeadingWs(raw_text) IN
    IF t # <<>> /\ Head(t).k = "fence"
    THEN LET u == Tail(t) IN
         DropLeadingWs(IF u # <<>> /\ Head(u).k = "tag" THEN Tail(u) ELSE u)
    ELSE raw_text

\* re.sub(r'\s*\n*```\s*$', '', json_text, flags=DOTALL)
StripTrailingFence(json_text) ==
    LET t == DropTrailingWs(json_text) IN
    IF t # <<>> /\ t[Len(t)].k = "fence"
    THEN DropTrailingWs(SubSeq(t, 1, Len(t) - 1))
    ELSE json_text

\* json.loads: one JSON document with optional whitespace around it;
\* anything else raises JSONDecodeError, which the caller turns into None.
json_loads_ok(json_text) ==
    LET t == DropTrailingWs(DropLeadingWs(json_text)) IN
    Len(t) = 1 /\ t[1].k = "json"

json_loads(json_text) == DropTrailingWs(DropLeadingWs(json_text))[1].v

extract_json_from_llm_response(raw_text) ==
    LET json_text == StripTrailingFence(StripLeadingFence(raw_text)) IN
    IF json_loads_ok(json_text) THEN json_loads(json_text) ELSE PyNone

(***************************************************************************)
(* validate_analysis_json                                                  *)
(***************************************************************************)
required_keys ==
    <<"Source Sentence", "Translation", "StructureAnalysis", "Vocabulary",
      "Decomposition">>

\* item_ok asking every element for its texts, highlighted or not
item_ok_any_highlight(item) ==
    /\ item.ty = "dict"
    /\ Truthy(Get(item, "segment", PyNone))
    /\ Truthy(Get(item, "role", PyNone))
    /\ Truthy(Get(item, "explanation_cn", PyNone))

\* the check of one element of StructureAnalysis (the body of the for loop)
item_ok(item) ==
    /\ item.ty = "dict"
    /\ Truthy(Get(item, "highlight", PyBool(FALSE))) =>
          /\ Truthy(Get(item, "segment", PyNone))
          /\ Truthy(Get(item, "role", PyNone))
          /\ Truthy(Get(item, "explanation_cn", PyNone))

validate_analysis_json(data) ==
    IF data.ty # "dict" THEN FALSE
    ELSE IF \E i \in 1..Len(required_keys) : required_keys[i] \notin DOMAIN data.d
    THEN FALSE
    ELSE LET sa == Get(data, "StructureAnalysis", PyList(<<>>)) IN
         IF sa.ty # "list" THEN FALSE
         ELSE \A i \in 1..Len(sa.l) : item_ok(sa.l[i])

(***************************************************************************)
(* Bounds of the model.  The source sets CACHE_SIZE_LIMIT = 10; the model  *)
(* runs the same code with a smaller limit, and every property below is    *)
(* stated in terms of the name.  Time is counted in seconds and moves in   *)
(* steps of Tick seconds.                                                  *)
(***************************************************************************)
CACHE_SIZE_LIMIT == 2

CACHE_TTL_SECONDS == 30

Tick == 15

MaxTicks == 3

\* an LLM call takes up to this many ticks: long enough to outlast the TTL
MaxCallTicks == (CACHE_TTL_SECONDS + Tick - 1) \div Tick

\* one sentence more than the cache holds
NumSentences == CACHE_SIZE_LIMIT + 1

MaxClock == MaxTicks * Tick

Sentences == 1..NumSentences

\* hashlib.md5(sentence.encode('utf-8')).hexdigest(): distinct sentences of
\* the model have distinct digests, in no particular order.
Digests == <<"c4ca", "a87f", "0cc1", "7b8b", "e4da", "1679", "8f14">>

md5(sentence) == Digests[sentence]

(***************************************************************************)
(* What the LLM may answer.  Reply 0 stands for a call that raises.        *)
(***************************************************************************)
Seg(segment, highlight, role, explanation_cn) ==
    PyDict(("segment" :> PyStr(segment)) @@ ("highlight" :> PyBool(highlight))
           @@ ("role" :> PyStr(role)) @@ ("explanation_cn" :> PyStr(explanation_cn)))

Analysis(source, sa) ==
    PyDict(("Source Sentence" :> PyStr(source)) @@ ("Translation" :> PyStr(<<"t">>))
           @@ ("StructureAnalysis" :> sa) @@ ("Vocabulary" :> PyList(<<>>))
           @@ ("Decomposition" :> PyList(<<>>)))

\* d without the key k
Without(v, k) == PyDict([x \in DOMAIN v.d \ {k} |-> v.d[x]])

ResultA == Analysis(<<"a">>, PyList(<<Seg(<<"a">>, FALSE, <<>>, <<>>)>>))

ResultB == Analysis(<<"b">>, PyList(<<Seg(<<"b">>, TRUE, <<"r">>, <<"e">>)>>))

\* a highlighted segment with an empty role
ResultEmptyRole == Analysis(<<"b">>, PyList(<<Seg(<<"b">>, TRUE, <<>>, <<"e">>)>>))

LlmReplies ==
    << <<JSON(ResultA)>>,
       <<FENCE, TAG, WS, JSON(ResultB), WS, FENCE>>,
       <<PROSE, WS, JSON(ResultA)>>,
       <<JSON(Without(ResultA, "Translation"))>>,
       <<WS, FENCE, WS, JSON(ResultEmptyRole), WS, FENCE, WS>>,
       <<JSON(PyDict(<<>>))>> >>

Replies == 0..Len(LlmReplies)

(***************************************************************************)
(* st.session_state.llm_cache: a Python dict, which keeps its keys in      *)
(* insertion order.  It is a sequence of entries with distinct keys.       *)
(***************************************************************************)
Entry(key, result, timestamp) ==
    [key |-> key, result |-> result, timestamp |-> timestamp]

Keys(cache) == {cache[i].key : i \in 1..Len(cache)}

IndexOf(cache, key) == CHOOSE i \in 1..Len(cache) : cache[i].key = key

\* cache[key]
Lookup(cache, key) == cache[IndexOf(cache, key)]

\* cache[key] = entry: a key already present keeps its place
DictSet(cache, key, entry) ==
    IF key \in Keys(cache)
    THEN [cache EXCEPT ![IndexOf(cache, key)] = entry]
    ELSE Append(cache, entry)

\* del cache[key]
DictDel(cache, key) == SelectSeq(cache, LAMBDA e : e.key # key)

VARIABLES
    llm_cache,        \* st.session_state.llm_cache
    clock,            \* what time.time() returns now
    cache_key,        \* the key of the latest request ("" before the first)
    analysis_json,    \* the result the latest request returned
    elapsed_time,     \* the elapsed time the latest request returned
    llm_result,       \* the LLM's reply to the latest request: an index of
                      \* LlmReplies, 0 when the call raised, -1 when not called
    outcome,          \* the path the latest request took ("none" between runs)
    llm_invocations,  \* how many times the latest request called the LLM
    evicted,          \* the entry the latest request deleted, if any
    accepted,         \* validate_analysis_json(analysis_json), as the button
                      \* handler calls it: "pending", "accepted" or "rejected"
    page,             \* "rendered" once the handler has built the markup
    highlighted_sentence,   \* the markup of the sentence given to st.html
    cards             \* the card_html of every card given to st.html

vars ==
    <<llm_cache, clock, cache_key, analysis_json, elapsed_time, llm_result,
      outcome, llm_invocations, evicted, accepted, page, highlighted_sentence,
      cards>>

pageVars == <<accepted, page, highlighted_sentence, cards>>

cacheVars ==
    <<llm_cache, clock, cache_key, elapsed_time, llm_result, outcome,
      llm_invocations, evicted>>

(***************************************************************************)
(* llm_english_analyze_with_time                                           *)
(***************************************************************************)
\* cache_hit with the comparison `<=`
cache_hit_inclusive(cache, key, current_time) ==
    /\ key \in Keys(cache)
    /\ current_time - Lookup(cache, key).timestamp <= CACHE_TTL_SECONDS

\* the cache check: the key is present and its entry is younger than the TTL
cache_hit(cache, key, current_time) ==
    /\ key \in Keys(cache)
    /\ current_time - Lookup(cache, key).timestamp < CACHE_TTL_SECONDS

\* oldest_key taking the last key of the smallest timestamp, not the first
oldest_key_last(cache) ==
    LET i == CHOOSE i \in 1..Len(cache) :
                 /\ \A j \in 1..Len(cache) : cache[i].timestamp <= cache[j].timestamp
                 /\ \A j \in (i + 1)..Len(cache) : cache[j].timestamp > cache[i].timestamp
    IN cache[i].key

\* min(llm_cache_keys, key=lambda k: llm_cache[k]['timestamp']): the first
\* key, in the order of the dict, among those of the smallest timestamp
oldest_key(cache) ==
    LET i == CHOOSE i \in 1..Len(cache) :
                 /\ \A j \in 1..Len(cache) : cache[i].timestamp <= cache[j].timestamp
                 /\ \A j \in 1..(i - 1) : cache[j].timestamp > cache[i].timestamp
    IN cache[i].key

\* evict without the deletion
evict_never(cache) == cache

\* the eviction of one entry when the cache is full
evict(cache) ==
    IF Len(cache) >= CACHE_SIZE_LIMIT THEN DictDel(cache, oldest_key(cache)) ELSE cache

\* should_cache without the call of the validator
should_cache_unvalidated(json_result) == Truthy(json_result)

\* `if json_result and validate_analysis_json(json_result)`
should_cache(json_result) ==
    Truthy(json_result) /\ validate_analysis_json(json_result)

\* new_entry stamped with the time the LLM call returned
new_entry_at_end(key, json_result, current_time, end_time) ==
    Entry(key, json_result, end_time)

\* the entry written for a validated result
new_entry(key, json_result, current_time, end_time) ==
    Entry(key, json_result, current_time)

\* the cache update
update_cache(cache, key, json_result, current_time, end_time) ==
    IF should_cache(json_result)
    THEN DictSet(evict(cache), key, new_entry(key, json_result, current_time, end_time))
    ELSE cache

\* failure_return reporting the time the failed call took
failure_return_elapsed(elapsed) == <<PyNone, elapsed>>

\* `return None, 0.0` of the except branch
failure_return(elapsed) == <<PyNone, 0>>

\* miss_return handing out None for a result that was not cached
miss_return_null(json_result, elapsed) ==
    <<IF should_cache(json_result) THEN json_result ELSE PyNone, elapsed>>

\* `return json_result, elapsed_time`
miss_return(json_result, elapsed) == <<json_result, elapsed>>

\* the calls made to the LLM by one request that missed the cache
llm_calls(raised) == 1

\* One call of llm_english_analyze_with_time for `sentence`.  On a miss the
\* LLM answers with `reply` after `d` ticks.
llm_english_analyze_with_time(sentence, reply, d) ==
    LET key == md5(sentence)
        current_time == clock
    IN  /\ outcome = "none"
        /\ UNCHANGED pageVars
        /\ cache_key' = key
        /\ IF cache_hit(llm_cache, key, current_time)
           THEN /\ reply = 0 /\ d = 0
                /\ analysis_json' = Lookup(llm_cache, key).result
                /\ elapsed_time' = 0
                /\ outcome' = "hit"
                /\ llm_invocations' = 0
                /\ llm_result' = -1
                /\ evicted' = <<>>
                /\ UNCHANGED <<llm_cache, clock>>
           ELSE LET start_time == clock
                    end_time == clock + d * Tick
                IN  /\ end_time <= MaxClock
                    /\ clock' = end_time
                    /\ llm_invocations' = llm_calls(reply = 0)
                    /\ llm_result' = reply
                    /\ IF reply = 0
                       THEN /\ analysis_json' = failure_return(end_time - start_time)[1]
                            /\ elapsed_time' = failure_return(end_time - start_time)[2]
                            /\ outcome' = "llm_failed"
                            /\ llm_cache' = llm_cache
                            /\ evicted' = <<>>
                       ELSE LET raw_text == LlmReplies[reply]
                                json_result == extract_json_from_llm_response(raw_text)
                                ret == miss_return(json_result, end_time - start_time)
                            IN  /\ llm_cache' = update_cache(llm_cache, key, json_result,
                                                             current_time, end_time)
                                /\ evicted' =
                                      IF should_cache(json_result)
                                         /\ Len(llm_cache) >= CACHE_SIZE_LIMIT
                                      THEN <<Lookup(llm_cache, oldest_key(llm_cache))>>
                                      ELSE <<>>
                                /\ analysis_json' = ret[1]
                                /\ elapsed_time' = ret[2]
                                /\ outcome' =
                                      IF should_cache(json_result) THEN "stored"
                                      ELSE IF json_loads_ok(StripTrailingFence(
                                                  StripLeadingFence(raw_text)))
                                      THEN "rejected"
                                      ELSE "unparsed"

\* time passes between two requests
Wait ==
    /\ outcome = "none"
    /\ clock + Tick <= MaxClock
    /\ clock' = clock + Tick
    /\ UNCHANGED <<llm_cache, cache_key, analysis_json, elapsed_time, llm_result,
                   outcome, llm_invocations, evicted>>
    /\ UNCHANGED pageVars

Request ==
    \E sentence \in Sentences, reply \in Replies, d \in 0..MaxCallTicks :
        llm_english_analyze_with_time(sentence, reply, d)

\* The rest of the script run that made the request: it shows the result, and
\* its local variables are gone when the run ends; llm_cache is session state.
Finish ==
    /\ outcome # "none"
    /\ cache_key' = ""
    /\ analysis_json' = PyNone
    /\ elapsed_time' = 0
    /\ outcome' = "none"
    /\ llm_invocations' = 0
    /\ llm_result' = -1
    /\ evicted' = <<>>
    /\ UNCHANGED <<llm_cache, clock>>
    /\ UNCHANGED pageVars

\* the state between two script runs, but for llm_cache, clock and analysis_json
Idle ==
    /\ cache_key = ""
    /\ elapsed_time = 0
    /\ outcome = "none"
    /\ llm_invocations = 0
    /\ llm_result = -1
    /\ evicted = <<>>
    /\ accepted = "pending"
    /\ page = "none"
    /\ highlighted_sentence = <<>>
    /\ cards = <<>>

Init ==
    /\ llm_cache = <<>>
    /\ clock = 0
    /\ analysis_json = PyNone
    /\ Idle

Next == Request \/ Finish \/ Wait

Spec == Init /\ [][Next]_vars

(***************************************************************************)
(* Properties of the cache and of llm_english_analyze_with_time (Spec).    *)
(* A step from outcome = "none" is one request: the unprimed variables are *)
(* the state the request started in, the primed ones what it left.         *)
(***************************************************************************)
\* whether extraction of reply r succeeds, and the value it yields
ParseOk(r) == json_loads_ok(StripTrailingFence(StripLeadingFence(LlmReplies[r])))

Parsed(r) == extract_json_from_llm_response(LlmReplies[r])

\* the request got text from the LLM, and extraction or validation failed
FailedResponse(r) == r >= 1 /\ (~ParseOk(r) \/ ~validate_analysis_json(Parsed(r)))

\* C1: every entry of llm_cache holds a result that extraction produced from
\* an LLM reply and that the validator accepts, and a request whose reply
\* failed extraction or validation writes nothing to the cache.
C1_CacheHoldsOnlyValidated ==
    /\ [](\A i \in 1..Len(llm_cache) :
            /\ validate_analysis_json(llm_cache[i].result)
            /\ \E r \in 1..Len(LlmReplies) :
                  ParseOk(r) /\ Parsed(r) = llm_cache[i].result)
    /\ [][FailedResponse(llm_result') => llm_cache' = llm_cache]_vars

\* a request stored the result extracted from the fenced reply
C1_Witness ==
    /\ outcome = "stored"
    /\ llm_result = 2
    /\ cache_key \in Keys(llm_cache)
    /\ Lookup(llm_cache, cache_key).result = ResultB

\* C2, as claimed: a miss whose reply fails extraction or validation returns
\* None with the measured time and leaves the cache as it was.
C2_FailedResponseReturnsNull ==
    [][FailedResponse(llm_result') =>
          /\ analysis_json' = PyNone
          /\ elapsed_time' = clock' - clock
          /\ llm_cache' = llm_cache]_vars

\* C2, amended: such a request returns None when extraction failed and the
\* parsed value itself when the validator rejected it, in both cases with the
\* measured time and with the cache as it was.
C2_FailedResponseReturnsParsed ==
    [][FailedResponse(llm_result') =>
          /\ ~ParseOk(llm_result') => analysis_json' = PyNone
          /\ ParseOk(llm_result') =>
                /\ analysis_json' = Parsed(llm_result')
                /\ ~validate_analysis_json(analysis_json')
          /\ elapsed_time' = clock' - clock
          /\ llm_cache' = llm_cache]_vars

\* a request returned a parsed value the validator rejects, after a call that
\* took time, with entries in the cache
C2_Witness ==
    /\ outcome = "rejected"
    /\ analysis_json # PyNone
    /\ elapsed_time > 0
    /\ llm_cache # <<>>

\* C3: a request whose LLM call raises returns (None, 0.0), has called the LLM
\* exactly once, and leaves the cache as it was.
C3_LlmFailure ==
    [][llm_result' = 0 =>
          /\ analysis_json' = PyNone
          /\ elapsed_time' = 0
          /\ llm_invocations' = 1
          /\ llm_cache' = llm_cache]_vars

\* the call raised after some time, for a key whose stale entry is still there
C3_Witness ==
    /\ outcome = "llm_failed"
    /\ llm_result = 0
    /\ cache_key \in Keys(llm_cache)
    /\ clock - Lookup(llm_cache, cache_key).timestamp > CACHE_TTL_SECONDS

\* C4: a request is served from the cache (stored result, elapsed 0.0, no LLM
\* call, cache untouched) exactly when its key has an entry with
\* now - timestamp < CACHE_TTL_SECONDS; otherwise the LLM is called.
C4_HitExactlyWhenFresh ==
    [][outcome = "none" /\ outcome' # "none" =>
          LET key == cache_key'
              fresh == /\ \E i \in 1..Len(llm_cache) : llm_cache[i].key = key
                       /\ \A i \in 1..Len(llm_cache) :
                             llm_cache[i].key = key =>
                                clock - llm_cache[i].timestamp < CACHE_TTL_SECONDS
          IN  IF fresh
              THEN /\ \E i \in 1..Len(llm_cache) :
                         /\ llm_cache[i].key = key
                         /\ analysis_json' = llm_cache[i].result
                   /\ elapsed_time' = 0
                   /\ llm_invocations' = 0
                   /\ llm_cache' = llm_cache
                   /\ clock' = clock
              ELSE llm_invocations' >= 1]_vars

\* a request came exactly CACHE_TTL_SECONDS after its key's entry was stamped,
\* and called the LLM
C4_Witness ==
    /\ outcome = "unparsed"
    /\ elapsed_time = 0
    /\ llm_invocations = 1
    /\ cache_key \in Keys(llm_cache)
    /\ clock - Lookup(llm_cache, cache_key).timestamp = CACHE_TTL_SECONDS

\* the entries of the smallest timestamp
Oldest(cache) ==
    {i \in 1..Len(cache) : \A j \in 1..Len(cache) : cache[i].timestamp <= cache[j].timestamp}

\* C5: a request that stores into a cache of CACHE_SIZE_LIMIT or more entries
\* first removes exactly one entry, the one of the smallest timestamp, and among
\* several of that timestamp the first in the order of the dict's keys; a
\* request that stores into a smaller cache removes none.
C5_EvictsOldest ==
    [][outcome' = "stored" =>
          LET key == cache_key'
              others(c) == {c[i] : i \in {j \in 1..Len(c) : c[j].key # key}}
          IN  IF Len(llm_cache) >= CACHE_SIZE_LIMIT
              THEN \E v \in Oldest(llm_cache) :
                      /\ \A j \in Oldest(llm_cache) : v <= j
                      /\ Keys(llm_cache') = (Keys(llm_cache) \ {llm_cache[v].key}) \cup {key}
                      /\ others(llm_cache') = others(llm_cache) \ {llm_cache[v]}
              ELSE /\ Keys(llm_cache') = Keys(llm_cache) \cup {key}
                   /\ others(llm_cache') = others(llm_cache)]_vars

\* a store evicted one of two entries of the same timestamp
C5_Witness ==
    /\ outcome = "stored"
    /\ evicted # <<>>
    /\ evicted[1].key \notin Keys(llm_cache)
    /\ \E i \in 1..Len(llm_cache) :
          /\ llm_cache[i].key # cache_key
          /\ llm_cache[i].timestamp = evicted[1].timestamp

\* C6: the cache never holds more than CACHE_SIZE_LIMIT entries, and a request
\* whose reply validates ends with an entry for its key holding that result.
C6_BoundedAndStored ==
    /\ Len(llm_cache) <= CACHE_SIZE_LIMIT
    /\ Cardinality(Keys(llm_cache)) = Len(llm_cache)
    /\ (llm_result >= 1 /\ ParseOk(llm_result)
          /\ validate_analysis_json(Parsed(llm_result))) =>
          /\ cache_key \in Keys(llm_cache)
          /\ Lookup(llm_cache, cache_key).result = Parsed(llm_result)

\* a stale key was stored again into a full cache: another entry was evicted
\* and the key's own entry replaced
C6_Witness ==
    /\ outcome = "stored"
    /\ evicted # <<>>
    /\ evicted[1].key # cache_key
    /\ Len(llm_cache) = CACHE_SIZE_LIMIT - 1

\* C10: the timestamp of an entry is the time its request started, not the
\* time the LLM call returned; an entry whose LLM call took CACHE_TTL_SECONDS
\* or longer is stale the moment it is stored.
C10_StampedAtRequestStart ==
    outcome = "stored" =>
        /\ Lookup(llm_cache, cache_key).timestamp = clock - elapsed_time
        /\ elapsed_time >= CACHE_TTL_SECONDS =>
              clock - Lookup(llm_cache, cache_key).timestamp >= CACHE_TTL_SECONDS

\* an entry was stored after a call of CACHE_TTL_SECONDS or more
C10_Witness ==
    /\ outcome = "stored"
    /\ elapsed_time >= CACHE_TTL_SECONDS
    /\ ~cache_hit(llm_cache, cache_key, clock)

(***************************************************************************)
(* The validator on its own (SpecValidate): the handler's call             *)
(* validate_analysis_json(analysis_json) for parsed values of every shape. *)
(***************************************************************************)
MaxItems == 2

\* a value that is there (<<v>>) or a key that is absent (<<>>)
TextOptions ==
    {<<>>, <<PyStr(<<>>)>>, <<PyStr(<<" ">>)>>, <<PyStr(<<"x">>)>>, <<PyNone>>,
     <<PyNum(1)>>}

HighlightOptions == {<<>>, <<PyBool(FALSE)>>, <<PyBool(TRUE)>>, <<PyStr(<<"n">>)>>}

Field(key, option) == IF option = <<>> THEN <<>> ELSE key :> option[1]

ItemOf(segment, highlight, role, explanation_cn) ==
    PyDict(Field("segment", segment) @@ Field("highlight", highlight)
           @@ Field("role", role) @@ Field("explanation_cn", explanation_cn))

AllItems ==
    {ItemOf(s, h, r, e) : s \in TextOptions, h \in HighlightOptions,
                          r \in TextOptions, e \in TextOptions}
    \cup {PyStr(<<"x">>)}

SmallItems ==
    { Seg(<<"x">>, TRUE, <<"r">>, <<"e">>),
      Seg(<<"x">>, TRUE, <<>>, <<"e">>),
      Seg(<<"x">>, TRUE, <<" ">>, <<"e">>),
      Seg(<<>>, FALSE, <<>>, <<>>),
      PyNum(1) }

SeqsUpTo(S, n) == UNION {[1..k -> S] : k \in 0..n}

ValidatorInputs ==
    {Analysis(<<"x">>, PyList(<<i>>)) : i \in AllItems}
    \cup {Analysis(<<"x">>, PyList(l)) : l \in SeqsUpTo(SmallItems, MaxItems)}
    \cup {Analysis(<<"x">>, sa) : sa \in {PyNone, PyStr(<<"x">>), ResultA}}
    \cup {Without(ResultB, required_keys[i]) : i \in 1..Len(required_keys)}
    \cup {PyNone, PyBool(TRUE), PyNum(0), PyStr(<<"x">>), PyList(<<>>),
          PyList(<<ResultB>>), PyDict(<<>>)}

InitValidate ==
    /\ analysis_json \in ValidatorInputs
    /\ llm_cache = <<>>
    /\ clock = 0
    /\ Idle

\* `validate_analysis_json(analysis_json)` in the button handler
Validate ==
    /\ accepted = "pending"
    /\ accepted' = IF validate_analysis_json(analysis_json) THEN "accepted" ELSE "rejected"
    /\ UNCHANGED <<analysis_json, page, highlighted_sentence, cards>>
    /\ UNCHANGED cacheVars

NextValidate == Validate

SpecValidate == InitValidate /\ [][NextValidate]_vars

IsSpace(c) == c \in {" ", "\t", "\n"}

\* str.strip()
RECURSIVE Strip(_)
Strip(s) ==
    IF s = <<>> THEN s
    ELSE IF IsSpace(Head(s)) THEN Strip(Tail(s))
    ELSE IF IsSpace(s[Len(s)]) THEN Strip(SubSeq(s, 1, Len(s) - 1))
    ELSE s

TextKeys == {"segment", "role", "explanation_cn"}

\* the shape every accepted value has, whatever its highlighted elements hold
WellShaped(data) ==
    /\ data.ty = "dict"
    /\ \A i \in 1..Len(required_keys) : required_keys[i] \in DOMAIN data.d
    /\ data.d["StructureAnalysis"].ty = "list"
    /\ \A i \in 1..Len(data.d["StructureAnalysis"].l) :
          data.d["StructureAnalysis"].l[i].ty = "dict"

Highlighted(item) == "highlight" \in DOMAIN item.d /\ Truthy(item.d["highlight"])

\* a value that is not empty once trimmed; a value that is no string cannot be
\* trimmed and counts as Python counts it
NonEmptyTrimmed(v) == IF v.ty = "str" THEN Strip(v.s) # <<>> ELSE Truthy(v)

\* C7, as claimed: a value is accepted exactly when it is well shaped and every
\* highlighted element has segment, role and explanation_cn present and
\* non-empty after trimming whitespace.
C7_AcceptsIffTrimmedNonEmpty ==
    accepted # "pending" =>
        (accepted = "accepted" <=>
            /\ WellShaped(analysis_json)
            /\ \A i \in 1..Len(analysis_json.d["StructureAnalysis"].l) :
                  LET item == analysis_json.d["StructureAnalysis"].l[i] IN
                  Highlighted(item) =>
                      \A k \in TextKeys :
                          /\ k \in DOMAIN item.d
                          /\ NonEmptyTrimmed(item.d[k]))

\* C7, amended: a value is accepted exactly when it is well shaped and every
\* highlighted element has segment, role and explanation_cn present and true
\* as Python tests them (a string: not empty); nothing is trimmed, so a text of
\* whitespace alone is accepted.
C7_AcceptsIffNonEmpty ==
    accepted # "pending" =>
        (accepted = "accepted" <=>
            /\ WellShaped(analysis_json)
            /\ \A i \in 1..Len(analysis_json.d["StructureAnalysis"].l) :
                  LET item == analysis_json.d["StructureAnalysis"].l[i] IN
                  Highlighted(item) =>
                      \A k \in TextKeys :
                          /\ k \in DOMAIN item.d
                          /\ Truthy(item.d[k]))

\* a highlighted element whose role is whitespace alone was accepted
C7_Witness ==
    /\ accepted = "accepted"
    /\ \E i \in 1..Len(analysis_json.d["StructureAnalysis"].l) :
          LET item == analysis_json.d["StructureAnalysis"].l[i] IN
          /\ Highlighted(item)
          /\ item.d["role"].s = <<" ">>

(***************************************************************************)
(* The markup the button handler builds (SpecRender).  A markup string is  *)
(* a sequence of pieces [k, c]: k = "markup" for text of the program's own *)
(* templates (c is the whole template text), k = "attr" for one character  *)
(* c of model-derived text inside an attribute value, and k = "text" for   *)
(* one character of model-derived text in element content.  The Chinese    *)
(* labels and brackets of the templates are written in ASCII.              *)
(***************************************************************************)
Markup(c) == <<[k |-> "markup", c |-> c]>>

Data(kind, s) == [i \in 1..Len(s) |-> [k |-> kind, c |-> s[i]]]

escape_char(c, quote) ==
    CASE c = "&" -> <<"&", "a", "m", "p", ";">>
      [] c = "<" -> <<"&", "l", "t", ";">>
      [] c = ">" -> <<"&", "g", "t", ";">>
      [] c = "\"" /\ quote -> <<"&", "q", "u", "o", "t", ";">>
      [] c = "'" /\ quote -> <<"&", "#", "x", "2", "7", ";">>
      [] OTHER -> <<c>>

\* html.escape(s, quote)
RECURSIVE html_escape(_, _)
html_escape(s, quote) ==
    IF s = <<>> THEN <<>>
    ELSE escape_char(Head(s), quote) \o html_escape(Tail(s), quote)

HIGHLIGHT_COLORS == <<"#fce8a9", "#a9fce8", "#e8a9fc", "#fcd9a9">>

create_instant_hover_highlight(segment, tooltip_content, color) ==
    LET escaped_segment == html_escape(Strip(segment), TRUE)
        escaped_tooltip == html_escape(Strip(tooltip_content), TRUE)
    IN  Markup("<span class=\"custom-tooltip\" data-tooltip=\"")
        \o Data("attr", escaped_tooltip)
        \o Markup("\" style=\"background-color: ") \o Markup(color)
        \o Markup("; border-bottom: 2px solid #ffbf00; padding: 2px 0; margin-right: 2px;\">")
        \o Data("text", escaped_segment)
        \o Markup("</span>")

\* str(v) as an f-string formats v
Format(v) ==
    CASE v.ty = "str" -> v.s
      [] v.ty = "none" -> <<"N", "o", "n", "e">>
      [] OTHER -> <<"1">>

\* the loop over structure_data that fills highlighted_parts, from item i on
RECURSIVE highlighted_parts(_, _, _)
highlighted_parts(structure_data, i, color_index) ==
    IF i > Len(structure_data) THEN <<>>
    ELSE LET item == structure_data[i]
             segment == Get(item, "segment", PyStr(<<>>)).s
             is_highlight == Truthy(Get(item, "highlight", PyBool(FALSE)))
         IN  IF is_highlight /\ Strip(segment) # <<>>
             THEN LET color == HIGHLIGHT_COLORS[(color_index % Len(HIGHLIGHT_COLORS)) + 1]
                      role == Get(item, "role", PyStr(<<"?">>))
                      explanation == Get(item, "explanation_cn", PyStr(<<"?">>))
                      tooltip == <<"[">> \o Format(role) \o <<"]", ":", " ">>
                                 \o Format(explanation)
                  IN  create_instant_hover_highlight(segment, tooltip, color)
                      \o highlighted_parts(structure_data, i + 1, color_index + 1)
             ELSE Data("text", html_escape(segment, TRUE))
                  \o highlighted_parts(structure_data, i + 1, color_index)

\* str.strip() of a markup string: only model-derived characters can be blank
RECURSIVE StripMarkup(_)
StripMarkup(h) ==
    IF h = <<>> THEN h
    ELSE IF Head(h).k # "markup" /\ IsSpace(Head(h).c) THEN StripMarkup(Tail(h))
    ELSE IF h[Len(h)].k # "markup" /\ IsSpace(h[Len(h)].c)
    THEN StripMarkup(SubSeq(h, 1, Len(h) - 1))
    ELSE h

\* the card of item idx (counted from 0), or no card
card_html(item, idx) ==
    LET segment == Strip(Get(item, "segment", PyStr(<<>>)).s)
        is_highlight == Truthy(Get(item, "highlight", PyBool(FALSE)))
    IN  IF is_highlight /\ segment # <<>>
        THEN LET color == HIGHLIGHT_COLORS[(idx % Len(HIGHLIGHT_COLORS)) + 1]
                 role == Get(item, "role", PyStr(<<"?">>))
                 explanation == Get(item, "explanation_cn", PyStr(<<"?">>))
             IN  << Markup("<div style=\"background-color: ") \o Markup(color)
                    \o Markup("; padding: 12px 16px; ...\"><strong>segment:</strong> ")
                    \o Data("text", html_escape(segment, TRUE))
                    \o Markup("<br><strong>role:</strong> ")
                    \o Data("text", Format(role))
                    \o Markup("<br><strong>explanation:</strong> ")
                    \o Data("text", Format(explanation))
                    \o Markup("</div>") >>
        ELSE <<>>

\* the loop over structure_data that emits the cards, from item i on
RECURSIVE card_loop(_, _)
card_loop(structure_data, i) ==
    IF i > Len(structure_data) THEN <<>>
    ELSE card_html(structure_data[i], i - 1) \o card_loop(structure_data, i + 1)

\* The part of the button handler after the call: it stops on a result that is
\* None or not valid, and renders the sentence and the cards otherwise.
Render ==
    /\ page = "none"
    /\ analysis_json # PyNone
    /\ validate_analysis_json(analysis_json)
    /\ LET structure_data == Get(analysis_json, "StructureAnalysis", PyList(<<>>)).l IN
       /\ highlighted_sentence' = StripMarkup(highlighted_parts(structure_data, 1, 0))
       /\ cards' = card_loop(structure_data, 1)
    /\ page' = "rendered"
    /\ accepted' = "accepted"
    /\ UNCHANGED analysis_json
    /\ UNCHANGED cacheVars

(***************************************************************************)
(* The results SpecRender renders: every list of up to MaxSegments of the  *)
(* segments below, with the concatenation of the segment texts as the      *)
(* source sentence.                                                        *)
(***************************************************************************)
MaxSegments == 2

HighlightedTexts == {<<"a">>, <<" ", "b">>, <<"c", " ">>, <<"<">>}

PlainTexts == {<<"a">>, <<" ">>, <<"&">>, <<",", " ">>}

RoleAndExplanation == {<<<<"r">>, <<"e">>>>, <<<<"<">>, <<"&">>>>, <<<<"\"">>, <<"'">>>>}

RenderItems ==
    {Seg(s, TRUE, re[1], re[2]) : s \in HighlightedTexts, re \in RoleAndExplanation}
    \cup {Seg(s, FALSE, <<>>, <<>>) : s \in PlainTexts}

RECURSIVE Concat(_)
Concat(items) ==
    IF items = <<>> THEN <<>> ELSE Head(items).d["segment"].s \o Concat(Tail(items))

RenderInputs ==
    {Analysis(Concat(l), PyList(l)) : l \in SeqsUpTo(RenderItems, MaxSegments)}

InitRender ==
    /\ analysis_json \in RenderInputs
    /\ llm_cache = <<>>
    /\ clock = 0
    /\ Idle

NextRender == Render

SpecRender == InitRender /\ [][NextRender]_vars

\* the characters a consumer reads as the text of a markup string
VisibleText(h) ==
    LET t == SelectSeq(h, LAMBDA p : p.k = "text") IN [i \in 1..Len(t) |-> t[i].c]

StartsWith(s, prefix) ==
    Len(s) >= Len(prefix) /\ SubSeq(s, 1, Len(prefix)) = prefix

Entities ==
    << <<<<"&", "a", "m", "p", ";">>, "&">>,
       <<<<"&", "l", "t", ";">>, "<">>,
       <<<<"&", "g", "t", ";">>, ">">>,
       <<<<"&", "q", "u", "o", "t", ";">>, "\"">>,
       <<<<"&", "#", "x", "2", "7", ";">>, "'">> >>

\* html.unescape(s)
RECURSIVE html_unescape(_)
html_unescape(s) ==
    IF s = <<>> THEN <<>>
    ELSE IF \E e \in 1..Len(Entities) : StartsWith(s, Entities[e][1])
    THEN LET e == CHOOSE e \in 1..Len(Entities) : StartsWith(s, Entities[e][1])
         IN  <<Entities[e][2]>> \o html_unescape(SubSeq(s, Len(Entities[e][1]) + 1, Len(s)))
    ELSE <<Head(s)>> \o html_unescape(Tail(s))

\* C8: for a validated result whose segment texts make up the source sentence,
\* the text of the rendered sentence, de-escaped, is the source sentence,
\* blanks at the ends of every segment included.  (The handler is given a
\* trimmed sentence, so only source sentences without blanks at their ends are
\* considered.)
C8_RenderedTextIsSource ==
    (page = "rendered" /\ validate_analysis_json(analysis_json)) =>
        LET source == analysis_json.d["Source Sentence"].s IN
        (Concat(analysis_json.d["StructureAnalysis"].l) = source /\ Strip(source) = source)
            => html_unescape(VisibleText(highlighted_sentence)) = source

\* no model-derived character of h is a bare <, >, " or ', and every & of it
\* starts one of the entities html.escape writes
Escaped(h) ==
    \A i \in 1..Len(h) :
        h[i].k # "markup" =>
            /\ h[i].c \notin {"<", ">", "\"", "'"}
            /\ h[i].c = "&" =>
                  \E e \in 1..Len(Entities) :
                      LET n == Len(Entities[e][1]) IN
                      /\ i + n - 1 <= Len(h)
                      /\ \A j \in 1..n : h[i + j - 1].k = h[i].k
                                         /\ h[i + j - 1].c = Entities[e][1][j]

\* C9: in the sentence markup and in every card, model-derived text appears
\* in escaped form only.
C9_MarkupIsEscaped ==
    page = "rendered" =>
        /\ Escaped(highlighted_sentence)
        /\ \A i \in 1..Len(cards) : Escaped(cards[i])

====
